---- MODULE Spec2Model ----
(***************************************************************************)
(* State-machine model of skn-bpmn: the Sankhya API collector              *)
(* (sankhya_api_data_collector.py), the pm4py wrapper                       *)
(* (process_analyzer.py) and the Flask handlers                             *)
(* (app_sankhya_integrated.py).                                             *)
(*                                                                          *)
(* Encodings.  Python None / JSON null is the string "None".  A DataFrame  *)
(* is [cols |-> set of column names, rows |-> sequence of rows], a row a   *)
(* function from the column names to values.  A datetime cell is           *)
(* [na |-> FALSE, v |-> seconds] and pandas' NaT is [na |-> TRUE, v |-> 0].*)
(* str(n) of an integer case id is its sequence of decimal digits, so      *)
(* that string order (what sort_values sees after astype(str)) differs     *)
(* from numeric order.                                                      *)
(***************************************************************************)
EXTENDS Integers, Sequences, FiniteSets, TLC

VARIABLES
    SANKHYA_CONFIG,   \* app_sankhya_integrated.py: the module-level dict
    pc,               \* position of the handler / call in progress
    session_id,       \* SankhyaAPIDataCollector.session_id
    call,             \* the last collector call: its reply, result, raised flag
    raw_data,         \* DataFrame returned by collect_process_events
    processed_data,   \* DataFrame returned by preprocess_data
    files,            \* files the request in progress has on disk
    event_log,        \* ProcessAnalyzer.event_log
    steps,            \* operations the request in progress has performed, in order
    response          \* the HTTP response of the request in progress

vars == <<SANKHYA_CONFIG, pc, session_id, call, raw_data, processed_data,
          files, event_log, steps, response>>

\* ------------------------------------------------------------------ bounds

\* Longest table the ERP returns to preprocess_data.
MaxRows == 3
\* Largest timestamp (seconds) of an event.
MaxT == 1
\* Longest "rows" list of a query reply in the request pipeline.
MaxReplyRows == 1
\* calls made on one ProcessAnalyzer
MaxCalls == 3
\* Longest table and longest list of aligned traces given to
\* generate_sankhya_suggestions.
MaxSugRows == 2
MaxTraces == 2

\* ------------------------------------------------------------------ values

None == "None"

NaT == [na |-> TRUE, v |-> 0]

Datetime(t) == [na |-> FALSE, v |-> t]

\* case ids the view returns (NUNOTA numbers); 10 < 2 as strings
CaseIds == {2, 10}

Activities == {"A", "B"}

Timestamps == {Datetime(t) : t \in 0..MaxT} \cup {NaT}

NoTable == [cols |-> {}, rows |-> <<>>]

\* pandas DataFrame.empty: no rows or no columns
empty(df) == df.rows = <<>> \/ df.cols = {}

\* ------------------------------------------------------------ preprocess

\* Python str() of a non-negative int: its decimal digits
RECURSIVE astype_str(_)
astype_str(n) == IF n < 10 THEN <<n>> ELSE astype_str(n \div 10) \o <<n % 10>>

\* Python's < on two strings (here digit strings)
RECURSIVE StrLess(_, _)
StrLess(s, t) ==
    IF t = <<>> THEN FALSE
    ELSE IF s = <<>> THEN TRUE
    ELSE IF Head(s) # Head(t) THEN Head(s) < Head(t)
    ELSE StrLess(Tail(s), Tail(t))

\* the columns= mapping of df.rename
RenameMap == [c \in {"case_id", "activity", "timestamp", "resource"} |->
                CASE c = "case_id"   -> "case:concept:name"
                  [] c = "activity"  -> "concept:name"
                  [] c = "timestamp" -> "time:timestamp"
                  [] c = "resource"  -> "org:resource"]

NewName(c) == IF c \in DOMAIN RenameMap THEN RenameMap[c] ELSE c

OldName(df, n) == CHOOSE c \in df.cols : NewName(c) = n

\* df.rename(columns=...): a copy with the columns renamed
rename(df) ==
    LET newcols == {NewName(c) : c \in df.cols}
    IN  [cols |-> newcols,
         rows |-> [i \in 1..Len(df.rows) |->
                     [n \in newcols |-> df.rows[i][OldName(df, n)]]]]

\* order of sort_values(['case:concept:name', 'time:timestamp']): ascending
\* case string, then ascending timestamp with NaT last (na_position='last')
TsLess(x, y) == ~x.na /\ (y.na \/ x.v < y.v)

RowLess(a, b) ==
    \/ StrLess(a["case:concept:name"], b["case:concept:name"])
    \/ /\ a["case:concept:name"] = b["case:concept:name"]
       /\ TsLess(a["time:timestamp"], b["time:timestamp"])

\* stable insertion of r: before the first row strictly greater than r
RECURSIVE Insert(_, _)
Insert(r, s) ==
    IF s = <<>> THEN <<r>>
    ELSE IF RowLess(r, Head(s)) THEN <<r>> \o s
    ELSE <<Head(s)>> \o Insert(r, Tail(s))

\* DataFrame.sort_values on several columns: a stable lexicographic sort
RECURSIVE sort_values(_)
sort_values(rows) ==
    IF rows = <<>> THEN <<>>
    ELSE Insert(rows[Len(rows)], sort_values(SubSeq(rows, 1, Len(rows) - 1)))

\* positions before i, in frame order, of the rows of i's group
GroupBefore(rows, i) ==
    {j \in 1..(i - 1) : rows[j]["case:concept:name"] = rows[i]["case:concept:name"]}

Max(S) == CHOOSE x \in S : \A y \in S : y <= x

\* diff() without the groupby: against the previous row of the frame
duration_seconds_ungrouped(rows, i) ==
    IF i = 1 THEN 0
    ELSE LET cur  == rows[i]["time:timestamp"]
             prev == rows[i - 1]["time:timestamp"]
         IN  IF cur.na \/ prev.na THEN 0 ELSE cur.v - prev.v

\* groupby(case)['time:timestamp'].diff().dt.total_seconds().fillna(0):
\* NaN for the first row of a group and wherever either timestamp is NaT,
\* and fillna turns every NaN into 0
duration_seconds(rows, i) ==
    LET before == GroupBefore(rows, i)
    IN  IF before = {} THEN 0
        ELSE LET cur  == rows[i]["time:timestamp"]
                 prev == rows[Max(before)]["time:timestamp"]
             IN  IF cur.na \/ prev.na THEN 0 ELSE cur.v - prev.v

\* cumcount() without the + 1
activity_sequence_from_zero(rows, i) == Cardinality(GroupBefore(rows, i))

\* groupby(case).cumcount() + 1
activity_sequence(rows, i) == Cardinality(GroupBefore(rows, i)) + 1

\* SankhyaAPIDataCollector.preprocess_data; a KeyError on a missing column
\* is caught by the except clause, which returns the input frame
preprocess_data(df) ==
    IF empty(df) THEN df
    ELSE
    LET renamed == rename(df)
    IN  IF "case:concept:name" \notin renamed.cols THEN df
        ELSE IF "concept:name" \notin renamed.cols THEN df
        ELSE IF "time:timestamp" \notin renamed.cols THEN df
        ELSE
        LET typed == [i \in 1..Len(renamed.rows) |->
                        [renamed.rows[i] EXCEPT
                           !["case:concept:name"] = astype_str(@)]]
            sorted == sort_values(typed)
            newcols == renamed.cols \cup {"duration_seconds", "activity_sequence"}
        IN  [cols |-> newcols,
             rows |-> [i \in 1..Len(sorted) |->
                         [n \in newcols |->
                            CASE n = "duration_seconds"  -> duration_seconds(sorted, i)
                              [] n = "activity_sequence" -> activity_sequence(sorted, i)
                              [] OTHER -> sorted[i][n]]]]

\* ------------------------------------------------------------- collector

\* Replies of the ERP to the login POST.  kind "exception": requests.post
\* raised.  json: "invalid" (response.json() raises), "list" (valid JSON that
\* is no object) or "object"; status and rb describe the object's "status"
\* and "responseBody" members (None / "absent": no such member).
LoginReply(k, c, j, s, r, sid) ==
    [kind |-> k, code |-> c, json |-> j, status |-> s, rb |-> r, jsessionid |-> sid]

LoginReplies ==
    {LoginReply("exception", 0, "invalid", None, "absent", None)}
    \cup {LoginReply("http", 401, "object", s, "absent", None) : s \in {"1", "0"}}
    \cup {LoginReply("http", 200, j, None, "absent", None) : j \in {"invalid", "list"}}
    \cup {LoginReply("http", 200, "object", s, r, None) :
            s \in {"1", "0", None}, r \in {"absent", "null", "string"}}
    \cup {LoginReply("http", 200, "object", s, "object", sid) :
            s \in {"1", "0"}, sid \in {"S1", "S2", None}}

\* the try block of authenticate (lines 43-73): exc when a statement raises
authenticate_try(sid, reply) ==
    IF reply.kind = "exception" THEN [exc |-> TRUE, ret |-> FALSE, session_id |-> sid]
    ELSE IF reply.code = 200 THEN
        IF reply.json # "object"
        THEN \* response.json() raises, or result.get is no attribute of a list
             [exc |-> TRUE, ret |-> FALSE, session_id |-> sid]
        ELSE IF reply.status = "1" THEN
            CASE reply.rb = "absent" -> [exc |-> FALSE, ret |-> TRUE, session_id |-> None]
              [] reply.rb = "object" -> [exc |-> FALSE, ret |-> TRUE,
                                         session_id |-> reply.jsessionid]
              [] OTHER -> \* null or a string has no .get: AttributeError
                          [exc |-> TRUE, ret |-> FALSE, session_id |-> sid]
        ELSE [exc |-> FALSE, ret |-> FALSE, session_id |-> sid]
    ELSE [exc |-> FALSE, ret |-> FALSE, session_id |-> sid]

\* authenticate without its except clause: the exception propagates
authenticate_no_except(sid, reply) ==
    LET r == authenticate_try(sid, reply)
    IN  [raised |-> r.exc, ret |-> r.ret, session_id |-> r.session_id]

\* SankhyaAPIDataCollector.authenticate: the except clause returns False
authenticate(sid, reply) ==
    LET r == authenticate_try(sid, reply)
    IN  IF r.exc THEN [raised |-> FALSE, ret |-> FALSE, session_id |-> r.session_id]
        ELSE [raised |-> FALSE, ret |-> r.ret, session_id |-> r.session_id]

\* A timestamp cell of a reply row: a parseable string, null, or a string
\* pd.to_datetime cannot parse.
JsonTimestamps ==
    {[json |-> "str", v |-> t] : t \in 0..MaxT}
    \cup {[json |-> "null", v |-> 0], [json |-> "bad", v |-> 0]}

ReplyRowsOver(fields) ==
    CASE fields = {"case_id", "activity", "timestamp"} ->
            [case_id : CaseIds, activity : {"A"}, timestamp : JsonTimestamps]
      [] fields = {"case_id", "timestamp"} -> [case_id : CaseIds, timestamp : JsonTimestamps]
      [] fields = {"case_id", "activity"} -> [case_id : CaseIds, activity : {"A"}]
      [] fields = {"activity", "timestamp"} -> [activity : {"A"}, timestamp : JsonTimestamps]
      [] fields = {} -> {<<>>}

ReplyFields == {{"case_id", "activity", "timestamp"}, {"case_id", "timestamp"},
                {"case_id", "activity"}, {"activity", "timestamp"}, {}}

\* Replies of the ERP to the query POST; rb "scalar" is a JSON number,
\* has_rows whether the responseBody object has a "rows" member, fields the
\* names of its "fields" member.
QueryReply(k, c, j, s, r, h, f, rows) ==
    [kind |-> k, code |-> c, json |-> j, status |-> s, rb |-> r,
     has_rows |-> h, fields |-> f, rows |-> rows]

OneRow == <<[case_id |-> 2, activity |-> "A", timestamp |-> [json |-> "str", v |-> 0]]>>

QueryReplies ==
    {QueryReply("exception", 0, "invalid", None, "absent", FALSE, {}, <<>>)}
    \cup {QueryReply("http", 500, "object", "1", "object", TRUE,
                     {"case_id", "activity", "timestamp"}, OneRow)}
    \cup {QueryReply("http", 200, j, None, "absent", FALSE, {}, <<>>) : j \in {"invalid", "list"}}
    \cup {QueryReply("http", 200, "object", s, "object", TRUE,
                     {"case_id", "activity", "timestamp"}, OneRow) : s \in {"0", None}}
    \cup {QueryReply("http", 200, "object", "1", r, FALSE, {}, <<>>) :
            r \in {"absent", "null", "scalar", "object"}}
    \cup UNION {{QueryReply("http", 200, "object", "1", "object", TRUE, f, rows) :
                   rows \in {r \in [1..n -> ReplyRowsOver(f)] : n = 0 \/ f # {}}} :
                 f \in ReplyFields, n \in 0..MaxReplyRows}

\* the values execute_query returns
QNone == [kind |-> "None", has_rows |-> FALSE, fields |-> {}, rows |-> <<>>]
QScalar == [kind |-> "scalar", has_rows |-> FALSE, fields |-> {}, rows |-> <<>>]
QDict(h, f, rows) == [kind |-> "dict", has_rows |-> h, fields |-> f, rows |-> rows]

\* the try block of execute_query (lines 91-119)
execute_query_try(reply) ==
    IF reply.kind = "exception" THEN [exc |-> TRUE, ret |-> QNone]
    ELSE IF reply.code = 200 THEN
        IF reply.json # "object" THEN [exc |-> TRUE, ret |-> QNone]
        ELSE IF reply.status = "1" THEN
            \* result.get("responseBody", {})
            CASE reply.rb = "absent" -> [exc |-> FALSE, ret |-> QDict(FALSE, {}, <<>>)]
              [] reply.rb = "null"   -> [exc |-> FALSE, ret |-> QNone]
              [] reply.rb = "scalar" -> [exc |-> FALSE, ret |-> QScalar]
              [] OTHER -> [exc |-> FALSE,
                           ret |-> QDict(reply.has_rows, reply.fields, reply.rows)]
        ELSE [exc |-> FALSE, ret |-> QNone]
    ELSE [exc |-> FALSE, ret |-> QNone]

\* execute_query without its except clause: the exception propagates
execute_query_no_except(reply) ==
    LET r == execute_query_try(reply)
    IN  [raised |-> r.exc, ret |-> r.ret]

\* SankhyaAPIDataCollector.execute_query: the except clause returns None
execute_query(reply) ==
    LET r == execute_query_try(reply)
    IN  IF r.exc THEN [raised |-> FALSE, ret |-> QNone]
        ELSE [raised |-> FALSE, ret |-> r.ret]

\* pd.to_datetime on one cell; "bad" cells make the whole call raise
to_datetime(cell) == IF cell.json = "null" THEN NaT ELSE Datetime(cell.v)

\* the try block of collect_process_events (lines 137-175)
collect_try(q) ==
    IF q.raised THEN [exc |-> TRUE, df |-> NoTable]
    ELSE IF q.ret.kind = "scalar"
    THEN \* "rows" in <number> raises TypeError
         [exc |-> TRUE, df |-> NoTable]
    ELSE IF q.ret.kind = "dict" /\ q.ret.has_rows
    THEN LET f == q.ret.fields
             rows == q.ret.rows
         IN  IF "timestamp" \in f /\ \E i \in 1..Len(rows) : rows[i]["timestamp"].json = "bad"
             THEN [exc |-> TRUE, df |-> NoTable]
             ELSE IF "case_id" \notin f
             THEN \* df['case_id'] raises KeyError
                  [exc |-> TRUE, df |-> NoTable]
             ELSE [exc |-> FALSE,
                   df |-> [cols |-> f,
                           rows |-> [i \in 1..Len(rows) |->
                                       [c \in f |-> IF c = "timestamp"
                                                    THEN to_datetime(rows[i][c])
                                                    ELSE rows[i][c]]]]]
    ELSE \* None, {} or a dict without "rows": pd.DataFrame()
         [exc |-> FALSE, df |-> NoTable]

\* SankhyaAPIDataCollector.collect_process_events: the except clause
\* returns an empty DataFrame
collect_process_events(reply) ==
    LET q == execute_query(reply)
        r == collect_try(q)
    IN  IF r.exc THEN [raised |-> FALSE, df |-> NoTable, query |-> q]
        ELSE [raised |-> FALSE, df |-> r.df, query |-> q]

\* --------------------------------------------------------------- analyzer

\* ProcessAnalyzer.load_and_convert_log on the file log_path names:
\* read_csv raises FileNotFoundError without the file and ValueError when
\* the parse_dates column 'timestamp' is not in it; convert_to_event_log is
\* pm4py's (lib_ok: it returned)
load_and_convert_log(fs, lib_ok) ==
    LET csv == {f \in fs : f.name = "csv"}
    IN  IF csv = {} THEN [raised |-> TRUE, why |-> "FileNotFoundError", event_log |-> None]
        ELSE IF \E f \in csv : "timestamp" \notin f.cols
        THEN [raised |-> TRUE, why |-> "ValueError", event_log |-> None]
        ELSE IF ~lib_ok THEN [raised |-> TRUE, why |-> "external", event_log |-> None]
        ELSE [raised |-> FALSE, why |-> "", event_log |-> "loaded"]

\* ---------------------------------------------------------------- handlers

\* JSON bodies of POST /api/test-connection and /api/analyze-sankhya:
\* readable (request.json returns), config "default" (no config given),
\* "not_dict" or "dict", and the dict's base_url ("absent", a string, null)
RequestBodies ==
    {[readable |-> FALSE, config |-> "default", base_url |-> "absent"],
     [readable |-> TRUE, config |-> "default", base_url |-> "absent"],
     [readable |-> TRUE, config |-> "not_dict", base_url |-> "absent"]}
    \cup {[readable |-> TRUE, config |-> "dict", base_url |-> u] : u \in {"absent", "u9", None}}

\* reading the request and SankhyaAPIDataCollector(...) raise: request.json
\* raises, config has no .get, or base_url (None) has no .rstrip
collector_raises(cfg, req) ==
    \/ ~req.readable
    \/ req.config = "not_dict"
    \/ IF req.config = "dict" /\ req.base_url # "absent"
       THEN req.base_url = None
       ELSE cfg.base_url = None

Step(op, ok, why) == [op |-> op, ok |-> ok, why |-> why]

NoResponse == [endpoint |-> "none", code |-> 0, status |-> "none", suggestions |-> 0]

Respond(ep, code, status, n) ==
    [endpoint |-> ep, code |-> code, status |-> status, suggestions |-> n]

NoCall == [op |-> "none"]

\* test_sankhya_connection answering success whenever nothing raised
test_connection_response_unchecked(raised, auth_ret) ==
    IF raised THEN Respond("test", 500, "error", 0)
    ELSE Respond("test", 200, "success", 0)

\* test_sankhya_connection, lines 42-58: the response for what happened
test_connection_response(raised, auth_ret) ==
    IF raised THEN Respond("test", 500, "error", 0)
    ELSE IF auth_ret THEN Respond("test", 200, "success", 0)
    ELSE Respond("test", 401, "error", 0)

\* the handler going on whatever authenticate returned
analyze_auth_failed_ignored(auth_ret) == FALSE

\* analyze_sankhya_processes, lines 79-83: the early return after authenticate
analyze_auth_failed(auth_ret) == ~auth_ret

\* the handler testing "raw_data is None" instead of raw_data.empty
analyze_no_data_is_none(df) == FALSE

\* analyze_sankhya_processes, lines 88-97: the early return after collect
analyze_no_data(df) == empty(df)

\* the except clause of analyze_sankhya_processes, lines 153-162
AnalyzeError == Respond("analyze", 500, "error", 3)

RequestLocalsUnchanged ==
    UNCHANGED <<session_id, call, raw_data, processed_data, files, event_log>>

TestStart(req) ==
    /\ pc = "idle"
    /\ IF collector_raises(SANKHYA_CONFIG, req)
       THEN /\ pc' = "done"
            /\ response' = test_connection_response(TRUE, FALSE)
       ELSE /\ pc' = "tc_auth"
            /\ response' = response
    /\ steps' = <<>>
    /\ RequestLocalsUnchanged
    /\ UNCHANGED SANKHYA_CONFIG

TestAuthenticate(reply) ==
    /\ pc = "tc_auth"
    /\ LET r == authenticate(session_id, reply)
       IN  /\ call' = [op |-> "authenticate", reply |-> reply, before |-> session_id,
                       ret |-> r.ret, raised |-> r.raised]
           /\ session_id' = r.session_id
           /\ steps' = Append(steps, Step("authenticate", r.ret, ""))
           /\ response' = test_connection_response(r.raised, r.ret)
    /\ pc' = "done"
    /\ UNCHANGED <<SANKHYA_CONFIG, raw_data, processed_data, files, event_log>>

AnalyzeStart(req) ==
    /\ pc = "idle"
    /\ IF collector_raises(SANKHYA_CONFIG, req)
       THEN /\ pc' = "done"
            /\ response' = AnalyzeError
       ELSE /\ pc' = "an_auth"
            /\ response' = response
    /\ steps' = <<>>
    /\ RequestLocalsUnchanged
    /\ UNCHANGED SANKHYA_CONFIG

AnalyzeAuthenticate(reply) ==
    /\ pc = "an_auth"
    /\ LET r == authenticate(session_id, reply)
       IN  /\ call' = [op |-> "authenticate", reply |-> reply, before |-> session_id,
                       ret |-> r.ret, raised |-> r.raised]
           /\ session_id' = r.session_id
           /\ steps' = Append(steps, Step("authenticate", r.ret, ""))
           /\ IF r.raised
              THEN pc' = "done" /\ response' = AnalyzeError
              ELSE IF analyze_auth_failed(r.ret)
              THEN pc' = "done" /\ response' = Respond("analyze", 401, "error", 0)
              ELSE pc' = "an_collect" /\ response' = response
    /\ UNCHANGED <<SANKHYA_CONFIG, raw_data, processed_data, files, event_log>>

AnalyzeCollect(reply) ==
    /\ pc = "an_collect"
    /\ LET r == collect_process_events(reply)
       IN  /\ call' = [op |-> "collect", reply |-> reply, before |-> session_id,
                       ret |-> ~empty(r.df), raised |-> r.raised, query |-> r.query]
           /\ raw_data' = r.df
           /\ steps' = Append(steps, Step("collect", ~r.raised, ""))
           /\ IF r.raised
              THEN pc' = "done" /\ response' = AnalyzeError
              ELSE IF analyze_no_data(r.df)
              THEN pc' = "done" /\ response' = Respond("analyze", 200, "warning", 3)
              ELSE pc' = "an_preprocess" /\ response' = response
    /\ UNCHANGED <<SANKHYA_CONFIG, session_id, processed_data, files, event_log>>

AnalyzePreprocess ==
    /\ pc = "an_preprocess"
    /\ processed_data' = preprocess_data(raw_data)
    /\ steps' = Append(steps, Step("preprocess", TRUE, ""))
    /\ pc' = "an_save"
    /\ UNCHANGED <<SANKHYA_CONFIG, session_id, call, raw_data, files, event_log, response>>

\* save_to_csv: to_csv writes the frame's columns; an I/O error is logged
\* and swallowed (io_ok FALSE), leaving no file
AnalyzeSave(io_ok) ==
    /\ pc = "an_save"
    /\ files' = IF io_ok THEN files \cup {[name |-> "csv", cols |-> processed_data.cols]}
                ELSE files
    /\ steps' = Append(steps, Step("save_csv", io_ok, IF io_ok THEN "" ELSE "external"))
    /\ pc' = "an_load"
    /\ UNCHANGED <<SANKHYA_CONFIG, session_id, call, raw_data, processed_data,
                   event_log, response>>

AnalyzeLoad(lib_ok) ==
    /\ pc = "an_load"
    /\ LET r == load_and_convert_log(files, lib_ok)
       IN  /\ event_log' = r.event_log
           /\ steps' = Append(steps, Step("load", ~r.raised, r.why))
           /\ IF r.raised
              THEN pc' = "done" /\ response' = AnalyzeError
              ELSE pc' = "an_discover" /\ response' = response
    /\ UNCHANGED <<SANKHYA_CONFIG, session_id, call, raw_data, processed_data, files>>

\* discover_process_model and analyze_conformance reading the file on
\* every call, loaded or not
ensure_loaded_always(fs, ev, lib_ok) ==
    LET r == load_and_convert_log(fs, lib_ok)
    IN  [raised |-> r.raised, why |-> r.why, read |-> TRUE,
         event_log |-> IF r.raised THEN ev ELSE r.event_log]

\* discover_process_model and analyze_conformance, lines 32-33 and 49-50:
\* load the log first when event_log is None (read: the file was read);
\* load_and_convert_log assigns event_log only when nothing raised
ensure_loaded(fs, ev, lib_ok) ==
    IF ev = None
    THEN LET r == load_and_convert_log(fs, lib_ok)
         IN  [raised |-> r.raised, why |-> r.why, read |-> TRUE, event_log |-> r.event_log]
    ELSE [raised |-> FALSE, why |-> "", read |-> FALSE, event_log |-> ev]

\* a call into pm4py that either returns (lib_ok) or raises
LibraryStep(at, op, next, lib_ok) ==
    /\ pc = at
    /\ steps' = Append(steps, Step(op, lib_ok, IF lib_ok THEN "" ELSE "external"))
    /\ IF lib_ok
       THEN pc' = next /\ response' = response
       ELSE pc' = "done" /\ response' = AnalyzeError
    /\ UNCHANGED <<SANKHYA_CONFIG, session_id, call, raw_data, processed_data>>

AnalyzeDiscover(lib_ok) ==
    /\ LET r == ensure_loaded(files, event_log, lib_ok)
       IN  /\ LibraryStep("an_discover", "discover", "an_visualize", lib_ok /\ ~r.raised)
           /\ event_log' = r.event_log
    /\ UNCHANGED files

AnalyzeVisualize(lib_ok) ==
    /\ LibraryStep("an_visualize", "visualize", "an_conformance", lib_ok)
    /\ files' = IF lib_ok THEN files \cup {[name |-> "png", cols |-> {}]} ELSE files
    /\ UNCHANGED event_log

AnalyzeConformance(lib_ok) ==
    /\ LET r == ensure_loaded(files, event_log, lib_ok)
       IN  /\ LibraryStep("an_conformance", "conformance", "an_bottlenecks", lib_ok /\ ~r.raised)
           /\ event_log' = r.event_log
    /\ UNCHANGED files

AnalyzeBottlenecks(lib_ok) ==
    /\ LibraryStep("an_bottlenecks", "bottlenecks", "an_respond", lib_ok)
    /\ UNCHANGED <<files, event_log>>

\* lines 121-151: summary, suggestions, the response dict (reading the
\* library's aligned traces: lib_ok), os.remove of the CSV, the 200 answer
AnalyzeRespond(lib_ok) ==
    /\ pc = "an_respond"
    /\ steps' = Append(steps, Step("respond", lib_ok, IF lib_ok THEN "" ELSE "external"))
    /\ IF lib_ok
       THEN /\ files' = {f \in files : f.name # "csv"}
            \* generate_sankhya_suggestions returns at least one suggestion
            /\ response' = Respond("analyze", 200, "success", 1)
       ELSE /\ files' = files
            /\ response' = AnalyzeError
    /\ pc' = "done"
    /\ UNCHANGED <<SANKHYA_CONFIG, session_id, call, raw_data, processed_data, event_log>>

\* the response is sent; the next request starts with its own locals, and
\* its time-stamped file names are not those of this request
Return ==
    /\ pc = "done"
    /\ pc' = "idle"
    /\ session_id' = None
    /\ call' = NoCall
    /\ raw_data' = NoTable
    /\ processed_data' = NoTable
    /\ files' = {}
    /\ event_log' = None
    /\ steps' = <<>>
    /\ response' = NoResponse
    /\ UNCHANGED SANKHYA_CONFIG

\* ------------------------------------------------------------------ config

ConfigKeys == {"base_url", "app_key", "sankhya_id", "password", "token"}

\* the GET answering with the token itself
config_view_with_token(cfg) ==
    [base_url |-> cfg.base_url,
     has_app_key |-> ~(cfg.app_key \in {"", None}),
     has_sankhya_id |-> ~(cfg.sankhya_id \in {"", None}),
     has_password |-> ~(cfg.password \in {"", None}),
     has_token |-> cfg.token]

\* GET /api/sankhya-config, lines 244-250
config_view(cfg) ==
    [base_url |-> cfg.base_url,
     has_app_key |-> ~(cfg.app_key \in {"", None}),
     has_sankhya_id |-> ~(cfg.sankhya_id \in {"", None}),
     has_password |-> ~(cfg.password \in {"", None}),
     has_token |-> ~(cfg.token \in {"", None})]

\* a POST that replaces the whole configuration by its body
config_update_replace(cfg, body) ==
    [k \in ConfigKeys |-> IF k \in DOMAIN body THEN body[k] ELSE ""]

\* POST /api/sankhya-config, lines 254-259: body maps some keys to values;
\* only the five keys of the loop are looked up, any other key is ignored
config_update(cfg, body) ==
    [k \in ConfigKeys |-> IF k \in DOMAIN body THEN body[k] ELSE cfg[k]]

\* POST bodies that are not JSON objects: a body request.json cannot read,
\* null, [], a list naming a key, a number
OtherBodies == {"unreadable", "null", "empty_list", "list_of_key", "number"}

\* lines 254-259 on such a body: request.json raises (no try in the handler);
\* null and [] are falsy and skip the loop; "token" in ["token"] is true and
\* config_data["token"] raises TypeError; key in 5 raises TypeError
config_post_raises(kind) == kind \in {"unreadable", "list_of_key", "number"}

\* the step a POST /api/sankhya-config records: its body and the body's kind
PostStep(ok, why, kind, body) ==
    [op |-> "config_post", ok |-> ok, why |-> why, kind |-> kind, body |-> body]

ConfigGet ==
    /\ pc = "idle"
    /\ response' = [endpoint |-> "config_get", code |-> 200, status |-> "none",
                    suggestions |-> 0, body |-> config_view(SANKHYA_CONFIG)]
    /\ steps' = <<>>
    /\ pc' = "done"
    /\ RequestLocalsUnchanged
    /\ UNCHANGED SANKHYA_CONFIG

ConfigPost(body) ==
    /\ pc = "idle"
    /\ SANKHYA_CONFIG' = config_update(SANKHYA_CONFIG, body)
    /\ response' = Respond("config_post", 200, "success", 0)
    /\ steps' = <<PostStep(TRUE, "", "dict", body)>>
    /\ pc' = "done"
    /\ RequestLocalsUnchanged

\* a POST whose body is not a JSON object: nothing is assigned; an exception
\* escapes the handler and the framework answers 400 (unreadable) or 500
ConfigPostOther(kind) ==
    /\ pc = "idle"
    /\ response' = IF ~config_post_raises(kind) THEN Respond("config_post", 200, "success", 0)
                   ELSE IF kind = "unreadable" THEN Respond("config_post", 400, "none", 0)
                   ELSE Respond("config_post", 500, "none", 0)
    /\ steps' = <<PostStep(~config_post_raises(kind),
                           IF kind = "unreadable" THEN "BadRequest"
                           ELSE IF config_post_raises(kind) THEN "TypeError" ELSE "",
                           kind, <<>>)>>
    /\ pc' = "done"
    /\ RequestLocalsUnchanged
    /\ UNCHANGED SANKHYA_CONFIG

\* values a POST gives a key: strings, and null for the optional token;
\* "extra" is a key the handler does not know
PostValues(k) ==
    CASE k = "base_url" -> {"u1", "u2"}
      [] k = "token" -> {"", "k1", "k2", None}
      [] k = "extra" -> {"k1"}
      [] OTHER -> {"", "k1", "k2"}

PostBodies ==
    UNION {{b \in [K -> {"", "k1", "k2", "u1", "u2", None}] :
              \A k \in K : b[k] \in PostValues(k)} : K \in SUBSET (ConfigKeys \cup {"extra"})}

\* bodies posted while the pipeline is observed: it reads base_url only
BaseUrlBodies == {b \in [{"base_url"} -> {"u1", None}] : TRUE} \cup {<<>>}

\* ------------------------------------------------------------- suggestions

\* the messages generate_sankhya_suggestions returns, by their kind
NoDataMessage == <<"no_data">>

ErrorMessage == <<"error">>

DefaultSuggestions == <<"default_monitoring", "default_dashboards", "default_goals">>

HeuristicSuggestions ==
    {"activity", "duration", "low_fitness", "high_fitness", "category", "resource",
     "peak_hour"}

\* df[c] as a sequence of cells
column(df, c) == [i \in 1..Len(df.rows) |-> df.rows[i][c]]

\* Series.value_counts(): null cells are dropped
count_of(vals, x) == Cardinality({i \in DOMAIN vals : vals[i] = x})

\* value_counts().index[0] if len(...) > 0 else None: the most frequent
\* non-null value, the first seen among equally frequent ones
index0(vals) ==
    LET first == {i \in DOMAIN vals :
                    vals[i] # None /\ \A j \in DOMAIN vals : j < i => vals[j] # vals[i]}
    IN  IF first = {} THEN None
        ELSE vals[CHOOSE i \in first :
                    \A j \in first :
                      \/ count_of(vals, vals[i]) > count_of(vals, vals[j])
                      \/ count_of(vals, vals[i]) = count_of(vals, vals[j]) /\ i <= j]

RECURSIVE sum(_)
sum(vals) == IF vals = <<>> THEN 0 ELSE Head(vals) + sum(Tail(vals))

\* lines 182-187: "if most_frequent" is false for None and for ''
activity_suggestions(df) ==
    IF "concept:name" \notin df.cols THEN <<>>
    ELSE LET most_frequent == index0(column(df, "concept:name"))
         IN  IF most_frequent \notin {None, ""} THEN <<"activity">> ELSE <<>>

\* lines 190-191: mean() of a column holding a cell that is not a number raises
duration_raises(df) ==
    /\ "duration_seconds" \in df.cols
    /\ \E i \in 1..Len(df.rows) : ~df.rows[i]["duration_seconds"].num

\* lines 190-193: avg_duration > 3600
duration_suggestions(df) ==
    IF "duration_seconds" \notin df.cols THEN <<>>
    ELSE LET secs == [i \in 1..Len(df.rows) |-> df.rows[i]["duration_seconds"].v]
         IN  IF sum(secs) > 3600 * Len(secs) THEN <<"duration">> ELSE <<>>

\* lines 196-197: trace["fitness"] raises on an entry that is not a dict
\* with that key (the alignment library gives None for a trace it gave up)
conformance_raises(aligned_traces) ==
    \E i \in 1..Len(aligned_traces) : ~aligned_traces[i].ok

\* lines 196-203, fitness in hundredths: avg_fitness < 0.8, elif > 0.95
conformance_suggestions(aligned_traces) ==
    IF aligned_traces = <<>> THEN <<>>
    ELSE LET fitness_scores == [i \in 1..Len(aligned_traces) |-> aligned_traces[i].fitness]
             n == Len(fitness_scores)
         IN  IF sum(fitness_scores) < 80 * n THEN <<"low_fitness">>
             ELSE IF sum(fitness_scores) > 95 * n THEN <<"high_fitness">>
             ELSE <<>>

\* lines 206-210: one suggestion for each category with count > len(df) * 0.5
RECURSIVE category_loop(_, _)
category_loop(vals, todo) ==
    IF todo = {} THEN <<>>
    ELSE LET category == CHOOSE c \in todo : TRUE
         IN  (IF 2 * count_of(vals, category) > Len(vals) THEN <<"category">> ELSE <<>>)
             \o category_loop(vals, todo \ {category})

category_suggestions(df) ==
    IF "process_category" \notin df.cols THEN <<>>
    ELSE LET vals == column(df, "process_category")
         IN  category_loop(vals, {vals[i] : i \in DOMAIN vals} \ {None})

\* lines 213-217: len(resource_counts) > 0
resource_suggestions(df) ==
    IF "org:resource" \notin df.cols THEN <<>>
    ELSE IF index0(column(df, "org:resource")) # None THEN <<"resource">> ELSE <<>>

\* .dt.hour of a timestamp in seconds; NaN for NaT
hour(ts) == IF ts.na THEN NaT ELSE [na |-> FALSE, v |-> (ts.v \div 3600) % 24]

\* line 221: df['hour'] = ..., on the caller's table
with_hour(df) ==
    [cols |-> df.cols \cup {"hour"},
     rows |-> [i \in 1..Len(df.rows) |->
                 [c \in df.cols \cup {"hour"} |->
                    IF c = "hour" THEN hour(df.rows[i]["time:timestamp"])
                    ELSE df.rows[i][c]]]]

\* lines 222-223: idxmax() of the empty hourly_counts raises ValueError
temporal_raises(df) ==
    /\ "time:timestamp" \in df.cols
    /\ \A i \in 1..Len(df.rows) : df.rows[i]["time:timestamp"].na

temporal_suggestions(df) ==
    IF "time:timestamp" \in df.cols THEN <<"peak_hour">> ELSE <<>>

\* the body of the try, lines 177-232: what it returns or that it raises,
\* and the table as it leaves it
suggestions_try(df, aligned_traces) ==
    IF empty(df) THEN [raised |-> FALSE, ret |-> NoDataMessage, df |-> df]
    ELSE IF duration_raises(df) \/ conformance_raises(aligned_traces)
    THEN [raised |-> TRUE, ret |-> <<>>, df |-> df]
    ELSE IF temporal_raises(df) THEN [raised |-> TRUE, ret |-> <<>>, df |-> with_hour(df)]
    ELSE LET suggestions == activity_suggestions(df) \o duration_suggestions(df)
                            \o conformance_suggestions(aligned_traces)
                            \o category_suggestions(df) \o resource_suggestions(df)
                            \o temporal_suggestions(df)
         IN  [raised |-> FALSE,
              ret |-> IF Len(suggestions) = 0 THEN DefaultSuggestions ELSE suggestions,
              df |-> IF "time:timestamp" \in df.cols THEN with_hour(df) ELSE df]

\* generate_sankhya_suggestions without its except clause
generate_sankhya_suggestions_no_except(df, aligned_traces) ==
    suggestions_try(df, aligned_traces)

\* generate_sankhya_suggestions, lines 164-237: except Exception gives the
\* one error message
generate_sankhya_suggestions(df, aligned_traces) ==
    LET r == suggestions_try(df, aligned_traces)
    IN  IF r.raised THEN [raised |-> FALSE, ret |-> ErrorMessage, df |-> r.df] ELSE r

\* ----------------------------------------------------------- specifications

\* SANKHYA_CONFIG as built from the environment, lines 12-18
EnvConfigs ==
    [base_url : {"u1"}, app_key : {"", "k1"}, sankhya_id : {""}, password : {""},
     token : {""}]

InitRequest ==
    /\ session_id = None
    /\ call = NoCall
    /\ raw_data = NoTable
    /\ processed_data = NoTable
    /\ files = {}
    /\ event_log = None
    /\ steps = <<>>
    /\ response = NoResponse

Init ==
    /\ SANKHYA_CONFIG \in EnvConfigs
    /\ pc = "idle"
    /\ InitRequest

Next ==
    \/ \E req \in RequestBodies : TestStart(req)
    \/ \E reply \in LoginReplies : TestAuthenticate(reply)
    \/ \E req \in RequestBodies : AnalyzeStart(req)
    \/ \E reply \in LoginReplies : AnalyzeAuthenticate(reply)
    \/ \E reply \in QueryReplies : AnalyzeCollect(reply)
    \/ AnalyzePreprocess
    \/ \E io_ok \in BOOLEAN : AnalyzeSave(io_ok)
    \/ \E lib_ok \in BOOLEAN : AnalyzeLoad(lib_ok)
    \/ \E lib_ok \in BOOLEAN : AnalyzeDiscover(lib_ok)
    \/ \E lib_ok \in BOOLEAN : AnalyzeVisualize(lib_ok)
    \/ \E lib_ok \in BOOLEAN : AnalyzeConformance(lib_ok)
    \/ \E lib_ok \in BOOLEAN : AnalyzeBottlenecks(lib_ok)
    \/ \E lib_ok \in BOOLEAN : AnalyzeRespond(lib_ok)
    \/ \E body \in BaseUrlBodies : ConfigPost(body)
    \/ Return

Spec == Init /\ [][Next]_vars

\* the configuration endpoint alone
NextConfig ==
    \/ ConfigGet
    \/ \E body \in PostBodies : ConfigPost(body)
    \/ \E kind \in OtherBodies : ConfigPostOther(kind)
    \/ Return

SpecConfig == Init /\ [][NextConfig]_vars

\* one collector object used as a library: any sequence of its calls, each
\* recorded with what it returned to the caller
CollectorAuthenticate(reply) ==
    /\ pc = "collector"
    /\ LET r == authenticate(session_id, reply)
       IN  /\ call' = [op |-> "authenticate", reply |-> reply, before |-> session_id,
                       ret |-> r.ret, raised |-> r.raised]
           /\ session_id' = r.session_id
    /\ UNCHANGED <<SANKHYA_CONFIG, pc, raw_data, processed_data, files, event_log,
                   steps, response>>

CollectorCollect(reply) ==
    /\ pc = "collector"
    /\ LET r == collect_process_events(reply)
       IN  /\ call' = [op |-> "collect", reply |-> reply, before |-> session_id,
                       ret |-> ~empty(r.df), raised |-> r.raised, query |-> r.query]
    /\ UNCHANGED <<SANKHYA_CONFIG, pc, session_id, raw_data, processed_data, files,
                   event_log, steps, response>>

InitCollector ==
    /\ SANKHYA_CONFIG \in EnvConfigs
    /\ pc = "collector"
    /\ InitRequest

NextCollector ==
    \/ \E reply \in LoginReplies : CollectorAuthenticate(reply)
    \/ \E reply \in QueryReplies : CollectorCollect(reply)

SpecCollector == InitCollector /\ [][NextCollector]_vars

\* -------------------------------------------------- preprocess_data alone

ViewCols == {"case_id", "activity", "timestamp"}

\* the rows a frame with columns cols can hold
RowsOver(cols) ==
    CASE cols = ViewCols -> [case_id : CaseIds, activity : Activities, timestamp : Timestamps]
      [] cols = {"case_id", "timestamp"} -> [case_id : CaseIds, timestamp : Timestamps]
      [] cols = {"case_id", "activity"} -> [case_id : CaseIds, activity : Activities]

\* column sets of the frames collect_process_events can return: it needs
\* case_id (line 170) and takes the other columns as the reply names them
FrameCols == {ViewCols, {"case_id", "timestamp"}, {"case_id", "activity"}}

InitPreprocess ==
    /\ SANKHYA_CONFIG = [k \in ConfigKeys |-> IF k = "base_url" THEN "u1" ELSE ""]
    /\ pc = "pre_call"
    /\ \E cs \in FrameCols : \E n \in 1..MaxRows : \E r \in [1..n -> RowsOver(cs)] :
          raw_data = [cols |-> cs, rows |-> r]
    /\ session_id = None
    /\ call = NoCall
    /\ processed_data = NoTable
    /\ files = {}
    /\ event_log = None
    /\ steps = <<>>
    /\ response = NoResponse

PreprocessCall ==
    /\ pc = "pre_call"
    /\ processed_data' = preprocess_data(raw_data)
    /\ pc' = "pre_done"
    /\ UNCHANGED <<SANKHYA_CONFIG, session_id, call, raw_data, files, event_log,
                   steps, response>>

SpecPreprocess == InitPreprocess /\ [][PreprocessCall]_vars

\* -------------------------------------------------- ProcessAnalyzer alone

\* one ProcessAnalyzer used as a library on a log not loaded yet: any
\* sequence of discover_process_model and analyze_conformance, the caller
\* going on after a call that raised

\* what log_path may name: no file, a log with the view's columns, a log
\* as preprocess_data renames it
AnalyzerFiles ==
    {{}, {[name |-> "csv", cols |-> ViewCols]},
     {[name |-> "csv", cols |-> {"case:concept:name", "concept:name", "time:timestamp"}]}}

\* one call of op: the load it does if event_log is None, then pm4py's
\* algorithm (lib_ok: it returned) unless the load raised
AnalyzerCall(op, load_ok, lib_ok) ==
    /\ pc = "analyzer"
    /\ Cardinality({i \in 1..Len(steps) : steps[i].op # "load"}) < MaxCalls
    /\ LET r == ensure_loaded(files, event_log, load_ok)
           ok == ~r.raised /\ lib_ok
       IN  /\ event_log' = r.event_log
           /\ steps' = steps
                       \o (IF r.read THEN <<Step("load", ~r.raised, r.why)>> ELSE <<>>)
                       \o <<Step(op, ok, IF r.raised THEN r.why
                                         ELSE IF lib_ok THEN "" ELSE "external")>>
    /\ UNCHANGED <<SANKHYA_CONFIG, pc, session_id, call, raw_data, processed_data,
                   files, response>>

AnalyzerDiscover(load_ok, lib_ok) == AnalyzerCall("discover", load_ok, lib_ok)

AnalyzerConformance(load_ok, lib_ok) == AnalyzerCall("conformance", load_ok, lib_ok)

InitAnalyzer ==
    /\ SANKHYA_CONFIG = [base_url |-> "u1", app_key |-> "", sankhya_id |-> "",
                         password |-> "", token |-> ""]
    /\ pc = "analyzer"
    /\ session_id = None
    /\ call = NoCall
    /\ raw_data = NoTable
    /\ processed_data = NoTable
    /\ files \in AnalyzerFiles
    /\ event_log = None
    /\ steps = <<>>
    /\ response = NoResponse

NextAnalyzer ==
    \/ \E load_ok, lib_ok \in BOOLEAN : AnalyzerDiscover(load_ok, lib_ok)
    \/ \E load_ok, lib_ok \in BOOLEAN : AnalyzerConformance(load_ok, lib_ok)

SpecAnalyzer == InitAnalyzer /\ [][NextAnalyzer]_vars

\* ------------------------------------- generate_sankhya_suggestions alone

\* cells of the columns the heuristics read: activity names with '' and
\* null, durations with a cell that is not a number, timestamps with NaT
SuggestionCells(c) ==
    CASE c = "concept:name" -> {"A", "", None}
      [] c = "duration_seconds" -> {[num |-> TRUE, v |-> 0], [num |-> TRUE, v |-> 7200],
                                    [num |-> FALSE, v |-> 0]}
      [] c = "process_category" -> {"c1", "c2"}
      [] c = "org:resource" -> {"r1", None}
      [] c = "time:timestamp" -> {Datetime(0), NaT}
      [] OTHER -> {"2"}

\* the columns of the tables: none of those the heuristics read, each one
\* alone, those preprocess_data always gives, and the other three
SuggestionCols ==
    {{"case:concept:name"} \cup cs :
       cs \in {{}, {"concept:name"}, {"duration_seconds"}, {"process_category"},
               {"org:resource"}, {"time:timestamp"}, {"concept:name", "time:timestamp"},
               {"duration_seconds", "process_category", "org:resource"}}}

\* the rows over a set of columns: one cell of its column for each
RECURSIVE SuggestionRows(_)
SuggestionRows(cols) ==
    IF cols = {} THEN {<<>>}
    ELSE LET c == CHOOSE x \in cols : TRUE
         IN  {(c :> v) @@ r : v \in SuggestionCells(c), r \in SuggestionRows(cols \ {c})}

SuggestionTables ==
    {NoTable} \cup
    UNION {UNION {{[cols |-> cs, rows |-> r] : r \in [1..n -> SuggestionRows(cs)]} :
                    n \in 0..MaxSugRows} : cs \in SuggestionCols}

\* an aligned trace: a dict with its fitness (in hundredths), or an entry
\* that has none
AlignedTrace ==
    {[ok |-> TRUE, fitness |-> 60], [ok |-> TRUE, fitness |-> 100],
     [ok |-> FALSE, fitness |-> 0]}

AlignedTraces == UNION {[1..n -> AlignedTrace] : n \in 0..MaxTraces}

InitSuggestions ==
    /\ SANKHYA_CONFIG = [k \in ConfigKeys |-> IF k = "base_url" THEN "u1" ELSE ""]
    /\ pc = "sug_call"
    /\ processed_data \in SuggestionTables
    /\ \E tr \in AlignedTraces :
          call = [op |-> "generate_sankhya_suggestions", df |-> processed_data,
                  aligned_traces |-> tr, raised |-> FALSE, ret |-> <<>>]
    /\ session_id = None
    /\ raw_data = NoTable
    /\ files = {}
    /\ event_log = None
    /\ steps = <<>>
    /\ response = NoResponse

\* the call: call.df keeps the table as it was passed, processed_data is
\* the table as the call leaves it
SuggestionsCall ==
    /\ pc = "sug_call"
    /\ LET r == generate_sankhya_suggestions(processed_data, call.aligned_traces)
       IN  /\ call' = [call EXCEPT !.raised = r.raised, !.ret = r.ret]
           /\ processed_data' = r.df
    /\ pc' = "sug_done"
    /\ UNCHANGED <<SANKHYA_CONFIG, session_id, raw_data, files, event_log, steps, response>>

SpecSuggestions == InitSuggestions /\ [][SuggestionsCall]_vars

\* ------------------------------------------------------- claims C1 - C5

AnalyzeDone == pc = "done" /\ response.endpoint = "analyze"

InAnalyze ==
    \/ pc \in {"an_auth", "an_collect", "an_preprocess", "an_save", "an_load", "an_discover",
               "an_visualize", "an_conformance", "an_bottlenecks", "an_respond"}
    \/ AnalyzeDone

AnalyzeOrder == <<"authenticate", "collect", "preprocess", "save_csv", "load", "discover",
                  "visualize", "conformance", "bottlenecks", "respond">>

AuthSucceeded == Len(steps) >= 1 /\ steps[1].op = "authenticate" /\ steps[1].ok
AuthFailed == Len(steps) >= 1 /\ steps[1].op = "authenticate" /\ ~steps[1].ok

\* C1 as stated: when authentication succeeds, the query returns at least one
\* row with the view's columns and no library or file-system call fails, the
\* request loads the CSV, runs discovery, rendering and conformance and
\* answers 200 'success'.
C1_AsStated ==
    (/\ AnalyzeDone
     /\ AuthSucceeded
     /\ ~empty(raw_data)
     /\ {"case_id", "activity", "timestamp"} \subseteq raw_data.cols
     /\ \A i \in 1..Len(steps) : steps[i].why # "external")
    => /\ response.code = 200
       /\ response.status = "success"
       /\ \E i \in 1..Len(steps) : steps[i].op = "conformance" /\ steps[i].ok

\* C2: in every analyze request the operations performed are, in order, a
\* prefix of authenticate, collect, preprocess, save CSV, load, discover,
\* visualize, conformance, ...; a query is sent only after authenticate
\* returned True; and when authenticate returns False the request ends at
\* once with 401 'error', no query, no file and no analysis.
C2_StepOrder ==
    InAnalyze =>
      /\ Len(steps) <= Len(AnalyzeOrder)
      /\ \A i \in 1..Len(steps) : steps[i].op = AnalyzeOrder[i]
      /\ (\E i \in 1..Len(steps) : steps[i].op = "collect") => AuthSucceeded
      /\ AuthFailed =>
           /\ pc = "done"
           /\ response = Respond("analyze", 401, "error", 0)
           /\ Len(steps) = 1
           /\ files = {}
           /\ event_log = None
           /\ raw_data = NoTable

\* a request that went through every operation and answered success
C2_Witness ==
    /\ AnalyzeDone
    /\ Len(steps) = Len(AnalyzeOrder)
    /\ response.status = "success"

LoginAccepted(reply) == reply.kind = "http" /\ reply.code = 200 /\ reply.status = "1"

\* C3 as stated: authenticate returns True exactly when the login POST
\* answers 200 with body status "1"; otherwise it returns False, raises
\* nothing and leaves session_id unchanged.
C3_AsStated ==
    call.op = "authenticate" =>
      /\ ~call.raised
      /\ call.ret <=> LoginAccepted(call.reply)
      /\ ~call.ret => session_id = call.before

\* C3 (amended): authenticate returns True exactly when the login POST
\* answers 200 with a JSON object whose status is "1" and whose responseBody
\* is absent or an object; in every other case (also status "1" with a
\* responseBody that is null or no object) it returns False, raises nothing
\* and leaves session_id unchanged.
C3_Authenticate ==
    call.op = "authenticate" =>
      /\ ~call.raised
      /\ call.ret <=> (/\ LoginAccepted(call.reply)
                       /\ call.reply.json = "object"
                       /\ call.reply.rb \in {"absent", "object"})
      /\ ~call.ret => session_id = call.before

\* a logged-in collector whose next login is answered 200, status "1",
\* responseBody null: False, and the session id of before is kept
C3_Witness ==
    /\ call.op = "authenticate"
    /\ call.before = "S1"
    /\ LoginAccepted(call.reply)
    /\ call.reply.rb = "null"
    /\ ~call.ret
    /\ session_id = "S1"

\* C4: POST /api/test-connection answers exactly one of 200 'success'
\* (authenticate returned True), 401 'error' (it returned False) and 500
\* 'error' (reading the request or building the collector raised, before any
\* authenticate); nothing is answered before that, and no exception escapes.
C4_TestConnection ==
    /\ pc = "tc_auth" => response = NoResponse /\ steps = <<>>
    /\ response.endpoint = "test" =>
         /\ pc = "done"
         /\ \/ /\ response.code = 200 /\ response.status = "success"
               /\ AuthSucceeded /\ Len(steps) = 1
            \/ /\ response.code = 401 /\ response.status = "error"
               /\ AuthFailed /\ Len(steps) = 1
            \/ /\ response.code = 500 /\ response.status = "error"
               /\ steps = <<>>
         /\ call.op = "authenticate" => ~call.raised

\* a refused login answered 401
C4_Witness ==
    /\ response.endpoint = "test"
    /\ response.code = 401
    /\ AuthFailed

\* C5: when authentication succeeds and collect_process_events returns an
\* empty table, the analyze request answers 200 'warning' with three
\* suggestions, having preprocessed nothing, written no file and called no
\* ProcessAnalyzer operation.
C5_NoData ==
    (InAnalyze /\ call.op = "collect" /\ empty(raw_data)) =>
      /\ pc = "done"
      /\ response = Respond("analyze", 200, "warning", 3)
      /\ Len(steps) = 2
      /\ AuthSucceeded
      /\ processed_data = NoTable
      /\ files = {}
      /\ event_log = None

\* a query answered with the view's columns and no row
C5_Witness ==
    /\ AnalyzeDone
    /\ call.op = "collect"
    /\ call.reply.has_rows
    /\ call.reply.rows = <<>>
    /\ "case_id" \in raw_data.cols
    /\ response.status = "warning"

\* ------------------------------------------------------------ claims C6, C7

OutCase(i) == processed_data.rows[i]["case:concept:name"]
OutTs(i) == processed_data.rows[i]["time:timestamp"]
OutDur(i) == processed_data.rows[i]["duration_seconds"]
OutSeq(i) == processed_data.rows[i]["activity_sequence"]
OutIdx == 1..Len(processed_data.rows)

\* the events of the input and of the output, as (case, activity, timestamp)
RawEvent(i) == <<astype_str(raw_data.rows[i]["case_id"]), raw_data.rows[i]["activity"],
                 raw_data.rows[i]["timestamp"]>>
OutEvent(i) == <<OutCase(i), processed_data.rows[i]["concept:name"], OutTs(i)>>

SameEvents ==
    /\ Len(processed_data.rows) = Len(raw_data.rows)
    /\ \A i \in OutIdx :
         Cardinality({j \in OutIdx : OutEvent(j) = OutEvent(i)})
           = Cardinality({j \in OutIdx : RawEvent(j) = OutEvent(i)})

\* rows in ascending case (string order), then ascending timestamp, NaT last
SortedByCaseThenTime ==
    \A i \in OutIdx : \A j \in OutIdx :
        i < j =>
          /\ ~StrLess(OutCase(j), OutCase(i))
          /\ OutCase(i) = OutCase(j) => ~TsLess(OutTs(j), OutTs(i))

FirstOfCase(i) == \A j \in OutIdx : j < i => OutCase(j) # OutCase(i)

\* the preceding event of the same case
PrevOfCase(i) == Max({j \in OutIdx : j < i /\ OutCase(j) = OutCase(i)})

PreprocessedView == pc = "pre_done" /\ ViewCols \subseteq raw_data.cols

\* C6 as stated: sorted, same events, duration_seconds 0 for the first event of
\* a case and otherwise the non-negative seconds between the event's timestamp
\* and the preceding one's (which requires both timestamps to exist)
C6_AsStated ==
    PreprocessedView =>
      /\ SameEvents
      /\ SortedByCaseThenTime
      /\ \A i \in OutIdx :
           IF FirstOfCase(i) THEN OutDur(i) = 0
           ELSE /\ ~OutTs(i).na /\ ~OutTs(PrevOfCase(i)).na
                /\ OutDur(i) = OutTs(i).v - OutTs(PrevOfCase(i)).v
                /\ OutDur(i) >= 0

\* C6 (amended): for every non-empty input with columns case_id, activity and
\* timestamp, preprocess_data returns the same events sorted by case (as a
\* string) then timestamp, missing timestamps (NaT) last; duration_seconds is 0
\* for the first event of each case and for every event whose timestamp is
\* missing, and for every other event it is the non-negative number of seconds
\* since the preceding event of the same case.
C6_PreprocessDurations ==
    PreprocessedView =>
      /\ SameEvents
      /\ SortedByCaseThenTime
      /\ \A i \in OutIdx :
           IF FirstOfCase(i) \/ OutTs(i).na THEN OutDur(i) = 0
           ELSE /\ ~OutTs(PrevOfCase(i)).na
                /\ OutDur(i) = OutTs(i).v - OutTs(PrevOfCase(i)).v
                /\ OutDur(i) >= 0

\* a case whose events arrive out of order, one a positive number of seconds
\* after its predecessor and one with a missing timestamp after those
C6_Witness ==
    /\ PreprocessedView
    /\ Len(raw_data.rows) = 3
    /\ raw_data.rows[1]["timestamp"].na
    /\ \E i \in OutIdx : OutDur(i) > 0
    /\ \E i \in OutIdx : ~FirstOfCase(i) /\ OutTs(i).na

\* C7 as stated: every non-empty input gets activity_sequence 1..n per case
C7_AsStated ==
    pc = "pre_done" =>
      /\ "activity_sequence" \in processed_data.cols
      /\ \A i \in OutIdx :
           /\ OutSeq(i) \in 1..Cardinality({j \in OutIdx : OutCase(j) = OutCase(i)})
           /\ \A j \in OutIdx : (j # i /\ OutCase(j) = OutCase(i)) => OutSeq(j) # OutSeq(i)

\* C7 (amended): for every non-empty input with columns case_id, activity and
\* timestamp, activity_sequence takes within each case exactly the values
\* 1..n (n the number of events of the case), none twice, and increases in the
\* case's timestamp order (missing timestamps last).
C7_ActivitySequence ==
    PreprocessedView =>
      /\ "activity_sequence" \in processed_data.cols
      /\ \A i \in OutIdx :
           /\ OutSeq(i) \in 1..Cardinality({j \in OutIdx : OutCase(j) = OutCase(i)})
           /\ \A j \in OutIdx :
                (j # i /\ OutCase(j) = OutCase(i)) =>
                   /\ OutSeq(j) # OutSeq(i)
                   /\ OutSeq(i) < OutSeq(j) => ~TsLess(OutTs(j), OutTs(i))

\* three events of one case, given latest first
C7_Witness ==
    /\ PreprocessedView
    /\ Len(raw_data.rows) = 3
    /\ \A i \in 1..3 : raw_data.rows[i]["case_id"] = 10
    /\ TsLess(raw_data.rows[2]["timestamp"], raw_data.rows[1]["timestamp"])
    /\ \E i \in OutIdx : OutSeq(i) = 3

\* ------------------------------------------------------ claims C8 - C10

SecretKeys == {"app_key", "sankhya_id", "password", "token"}

IsEmpty(v) == v \in {"", None}

AllConfigs ==
    [base_url : {"u1", "u2"}, app_key : {"", "k1", "k2"}, sankhya_id : {"", "k1", "k2"},
     password : {"", "k1", "k2"}, token : {"", "k1", "k2", None}]

\* same base_url, and the same secrets empty
SameLowView(c1, c2) ==
    /\ c1.base_url = c2.base_url
    /\ \A k \in SecretKeys : IsEmpty(c1[k]) <=> IsEmpty(c2[k])

\* C8: the body of GET /api/sankhya-config is the one any configuration
\* with the same base_url and the same secrets empty would give, whatever
\* the secrets' values, after any sequence of POSTs.
C8_ConfigViewHidesSecrets ==
    response.endpoint = "config_get" =>
      \A c2 \in AllConfigs :
        SameLowView(SANKHYA_CONFIG, c2) => response.body = config_view(c2)

\* a GET after POSTs that changed base_url and set secrets
C8_Witness ==
    /\ response.endpoint = "config_get"
    /\ SANKHYA_CONFIG.base_url = "u2"
    /\ SANKHYA_CONFIG.token = "k2"
    /\ SANKHYA_CONFIG.password = "k1"
    /\ SANKHYA_CONFIG.app_key = ""
    /\ response.body.base_url = "u2"

\* C9 as stated: when an analyze request has answered, the temporary CSV it
\* wrote is gone.
C9_AsStated == AnalyzeDone => \A f \in files : f.name # "csv"

\* the failures of the query the claim lists
QueryFailed(reply) ==
    \/ reply.kind = "exception"
    \/ reply.code # 200
    \/ reply.json # "object"
    \/ reply.status # "1"
    \/ reply.rb # "object"
    \/ ~reply.has_rows
    \/ "case_id" \notin reply.fields

\* C10: execute_query and collect_process_events never raise; a failed query
\* (transport exception, non-200, status other than "1", no 'rows', no
\* case_id column) gives an empty table (execute_query returning None in the
\* first three cases), and the analyze request answers 200 'warning'.
C10_QueryFailures ==
    (InAnalyze /\ call.op = "collect") =>
      /\ ~call.raised
      /\ ~call.query.raised
      /\ QueryFailed(call.reply) =>
           /\ empty(raw_data)
           /\ (call.reply.kind = "exception" \/ call.reply.code # 200
               \/ call.reply.json # "object" \/ call.reply.status # "1")
                => call.query.ret = QNone
           /\ pc = "done"
           /\ response = Respond("analyze", 200, "warning", 3)

\* a query answered with rows but no case_id column
C10_Witness ==
    /\ AnalyzeDone
    /\ call.op = "collect"
    /\ call.reply.has_rows
    /\ Len(call.reply.rows) > 0
    /\ "case_id" \notin call.reply.fields
    /\ response.status = "warning"

\* ---------------------------------------------------------- claim C11

\* a step that answers a POST /api/sankhya-config
ConfigPostStep == pc = "idle" /\ pc' = "done" /\ response'.endpoint = "config_post"

\* C11: SANKHYA_CONFIG always has exactly the five keys; a POST with a JSON
\* object gives each key the body's value if the body has the key and leaves
\* it alone otherwise, whatever other keys the body has, and answers status
\* "success" (the empty object included); no other step changes a key. So
\* each key holds the value of the latest POST that had it, or its initial one.
C11_ConfigPostFrame ==
    /\ [](DOMAIN SANKHYA_CONFIG = ConfigKeys)
    /\ [][IF ConfigPostStep /\ steps'[1].kind = "dict"
          THEN /\ \A k \in ConfigKeys :
                    SANKHYA_CONFIG'[k] = IF k \in DOMAIN steps'[1].body
                                         THEN steps'[1].body[k]
                                         ELSE SANKHYA_CONFIG[k]
               /\ response'.status = "success"
          ELSE SANKHYA_CONFIG' = SANKHYA_CONFIG]_vars

\* a POST of a token and an unknown key, after an earlier POST of base_url:
\* the token is the new one, base_url the earlier one, app_key the initial one
C11_Witness ==
    /\ pc = "done"
    /\ response.endpoint = "config_post"
    /\ response.status = "success"
    /\ DOMAIN steps[1].body = {"token", "extra"}
    /\ steps[1].body["token"] = "k2"
    /\ SANKHYA_CONFIG.token = "k2"
    /\ SANKHYA_CONFIG.base_url = "u2"
    /\ SANKHYA_CONFIG.app_key = "k1"

\* ---------------------------------------------------------- claim C12

Loads == {i \in 1..Len(steps) : steps[i].op = "load"}

LoadedAt(i) == steps[i].op = "load" /\ steps[i].ok

\* C12 as stated: over any sequence of the two operations the file is read
\* at most once.
C12_AsStated == pc = "analyzer" => Cardinality(Loads) <= 1

\* C12: on an analyzer that starts unloaded an operation, whichever of the
\* two it is, reads the file exactly when no earlier load has succeeded; so
\* the first operation reads it, nothing is read after a load that
\* succeeded, the file is read again only after loads that raised, and
\* event_log is set exactly when a load has succeeded.
C12_LazyLoad ==
    pc = "analyzer" =>
      /\ \A i \in 1..Len(steps) :
           steps[i].op # "load" =>
             ((i > 1 /\ steps[i - 1].op = "load")
                <=> ~\E j \in 1..(i - 2) : LoadedAt(j))
      /\ \A i \in Loads : i < Len(steps) /\ steps[i + 1].op # "load"
      /\ \A i, j \in Loads : i < j => ~steps[i].ok
      /\ (event_log # None) <=> \E i \in Loads : steps[i].ok

\* conformance first on the unloaded analyzer, then discovery, then
\* conformance again: one read, by the first call
C12_Witness ==
    /\ pc = "analyzer"
    /\ Len(steps) = 4
    /\ LoadedAt(1)
    /\ steps[2].op = "conformance" /\ steps[2].ok
    /\ steps[3].op = "discover" /\ steps[3].ok
    /\ steps[4].op = "conformance"
    /\ event_log # None

\* ---------------------------------------------------------- claim C13

Range(f) == {f[i] : i \in DOMAIN f}

\* an analysis step of the call raises
StepRaises(df, aligned_traces) ==
    duration_raises(df) \/ conformance_raises(aligned_traces) \/ temporal_raises(df)

\* the suggestions of the heuristics that fire on the arguments
Fired(df, aligned_traces) ==
    Range(activity_suggestions(df)) \cup Range(duration_suggestions(df))
    \cup Range(conformance_suggestions(aligned_traces))
    \cup Range(category_suggestions(df)) \cup Range(resource_suggestions(df))
    \cup Range(temporal_suggestions(df))

\* C13: whatever the table and the aligned traces, the call does not raise
\* and returns at least one message: the one "no data" message for an empty
\* table; else the one error message if an analysis step raises; else the
\* three default suggestions if no heuristic fires; else exactly the
\* suggestions of the heuristics that fire, each once.
C13_Suggestions ==
    pc = "sug_done" =>
      LET df == call.df
          tr == call.aligned_traces
      IN  /\ ~call.raised
          /\ Len(call.ret) >= 1
          /\ IF empty(df) THEN call.ret = NoDataMessage
             ELSE IF StepRaises(df, tr) THEN call.ret = ErrorMessage
             ELSE IF Fired(df, tr) = {} THEN call.ret = DefaultSuggestions
             ELSE /\ Range(call.ret) = Fired(df, tr)
                  /\ Range(call.ret) \subseteq HeuristicSuggestions
                  /\ Len(call.ret) = Cardinality(Fired(df, tr))

\* a table whose activity heuristic fires and whose timestamps are all
\* missing: the last step raises after a suggestion was collected, and the
\* call returns the error message alone
C13_Witness ==
    /\ pc = "sug_done"
    /\ ~empty(call.df)
    /\ activity_suggestions(call.df) = <<"activity">>
    /\ temporal_raises(call.df)
    /\ ~call.raised
    /\ call.ret = ErrorMessage

====
